---- MODULE Spec2Model ----
(***************************************************************************)
(* State-machine model of the chat backend in src/main.py: process start   *)
(* (credential check, tool registry), the POST /chat handler chat_endpoint *)
(* (schema validation, inbound translation, the await on the agent         *)
(* runtime, answer extraction, outbound translation, failure mapping) and  *)
(* the agent runtime's tool loop as the handler sees it.                   *)
(***************************************************************************)
EXTENDS Integers, Sequences, FiniteSets, TLC

VARIABLES
    boot,                   \* "init" | "serving" | "crashed": module import, lines 21-80
    env,                    \* process environment: which credentials are set
    tavily_search_enabled,  \* line 49 / 51
    tools,                  \* line 60: the tool registry, a sequence of tool names
    provider_calls,         \* number of calls made to the search provider (line 67)
    pc,                     \* per request: position of its handler task
    request,                \* per request: the JSON body received
    full_chat_history,      \* per request: line 109, the conversation handed to ainvoke
    messages,               \* per request: the runtime's conversation state
    steps,                  \* per request: tool rounds the runtime has run
    invocations,            \* per request: number of app_runnable.ainvoke calls
    exc,                    \* per request: text of the exception raised, "" if none
    ai_response_content,    \* per request: lines 125 / 127
    resp,                   \* per request: the HTTP response sent
    logged                  \* per request: text printed by line 142, "" if none

vars == << boot, env, tavily_search_enabled, tools, provider_calls, pc, request,
           full_chat_history, messages, steps, invocations, exc,
           ai_response_content, resp, logged >>

-----------------------------------------------------------------------------
(* Bounds of the model *)

MaxHist == 2        \* longest chat_history of a request under Spec
MaxSteps == 2       \* most tool rounds the agent loop runs for one request
MaxConv == 3        \* longest final conversation the runtime returns under SpecAny
NumReq == 2         \* requests in flight at once under SpecConc

-----------------------------------------------------------------------------
(* Literal texts of the source *)

PLACEHOLDER == "Thinking... (AI is processing tool output or waiting for more context.)"
STUB == "Search functionality is currently unavailable (Tavily API key not set)."
ERRPREFIX == "Error performing Tavily search: "
DETAILPREFIX == "Internal server error: "
LOGPREFIX == "Error during chat processing: "

\* What the language runtime and the libraries raise
ATTRIBUTE_ERROR == "'dict' object has no attribute 'dict'"
VALIDATION_ERROR == "validation error for AIMessage tool_calls"
MODEL_ERROR == "model provider call failed"
\* Responses the web framework itself produces
FRAMEWORK_500 == "Internal Server Error"
FRAMEWORK_422 == "field required: message"

NoText == ""
Absent == "<absent>"   \* a key a JSON object does not carry

-----------------------------------------------------------------------------
(* Data *)

\* A tool-call record: an opaque JSON object (Dict[str, Any], line 87).
ToolCall(name, args, id) == [name |-> name, args |-> args, id |-> id]
Call1 == ToolCall("tavily_search", "q1", "call1")
MalformedCall == ToolCall(Absent, Absent, Absent)

\* ChatMessage, lines 84-87
ChatMessage(sender, content, tool_calls) ==
    [sender |-> sender, content |-> content, tool_calls |-> tool_calls]

\* The three message classes imported at line 11
HumanMessage(content) ==
    [type |-> "human", content |-> content, tool_calls |-> <<>>, tool_call_id |-> NoText]
AIMessage(content, tool_calls) ==
    [type |-> "ai", content |-> content, tool_calls |-> tool_calls, tool_call_id |-> NoText]
ToolMessage(content, tool_call_id) ==
    [type |-> "tool", content |-> content, tool_calls |-> <<>>, tool_call_id |-> tool_call_id]

\* ChatRequest, lines 89-91; has_message = FALSE is a body without "message"
ChatRequest(has_message, message, chat_history) ==
    [has_message |-> has_message, message |-> message, chat_history |-> chat_history]

NoRequest == ChatRequest(FALSE, NoText, <<>>)

\* The HTTP response; ChatResponse (lines 93-95) is the status-200 case
HttpResponse(status, response, chat_history, detail) ==
    [status |-> status, response |-> response, chat_history |-> chat_history,
     detail |-> detail]
NoResponse == HttpResponse(0, NoText, <<>>, NoText)

SeqsUpTo(S, n) == UNION { [1..k -> S] : k \in 0..n }

StartsWith(s, prefix) ==
    Len(s) >= Len(prefix) /\ SubSeq(s, 1, Len(prefix)) = prefix

-----------------------------------------------------------------------------
(* Inbound translation, lines 101-109 *)

\* AIMessage(...) at line 107 validates each record against the library's
\* tool-call schema (name, args, id); a record missing a key is rejected.
ValidToolCall(tc) == tc.name # Absent /\ tc.args # Absent /\ tc.id # Absent

InboundRaises(chat_history) ==
    \E i \in 1..Len(chat_history) :
        /\ chat_history[i].sender = "bot"
        /\ \E j \in 1..Len(chat_history[i].tool_calls) :
               ~ValidToolCall(chat_history[i].tool_calls[j])

\* Mutant of history_messages: the second branch is a plain else, so a turn of
\* an unrecognized sender is kept as a Human message instead of being dropped.
RECURSIVE history_messages_else_human(_)
history_messages_else_human(chat_history) ==
    IF chat_history = <<>> THEN <<>>
    ELSE LET msg == Head(chat_history)
             rest == history_messages_else_human(Tail(chat_history))
         IN  IF msg.sender = "bot"
             THEN <<AIMessage(msg.content, msg.tool_calls)>> \o rest
             ELSE <<HumanMessage(msg.content)>> \o rest

\* The loop of lines 103-107: a turn that is neither "user" nor "bot" matches no
\* branch and adds nothing.
RECURSIVE history_messages(_)
history_messages(chat_history) ==
    IF chat_history = <<>> THEN <<>>
    ELSE LET msg == Head(chat_history)
             rest == history_messages(Tail(chat_history))
         IN  IF msg.sender = "user"
             THEN <<HumanMessage(msg.content)>> \o rest
             ELSE IF msg.sender = "bot"
             THEN <<AIMessage(msg.content, msg.tool_calls)>> \o rest
             ELSE rest

\* line 109
ToInternal(chat_history, message) ==
    history_messages(chat_history) \o <<HumanMessage(message)>>

-----------------------------------------------------------------------------
(* Answer extraction, lines 114-127 *)

\* The reversed scan of lines 115-122 from position i down: the position of the
\* message it stops at with a match, 0 when it breaks on a Human message or runs
\* out.  An Assistant message with pending tool calls matches no branch and the
\* loop goes on.
RECURSIVE ScanReversed(_, _)
ScanReversed(msgs, i) ==
    IF i = 0 THEN 0
    ELSE IF msgs[i].type = "ai" /\ msgs[i].tool_calls = <<>> THEN i
    ELSE IF msgs[i].type = "human" THEN 0
    ELSE ScanReversed(msgs, i - 1)

\* lines 124-127
ExtractAnswer(msgs) ==
    LET i == ScanReversed(msgs, Len(msgs))
    IN  IF i > 0 THEN msgs[i].content ELSE PLACEHOLDER

-----------------------------------------------------------------------------
(* Outbound translation, lines 129-137 *)

\* line 137, the f-string
ToolOutputText(tool_call_id, content) ==
    "*(Tool Output for " \o tool_call_id \o "): " \o content \o "*"

\* line 134: tc.dict() is called on every record of a non-empty tool_calls; the
\* records are plain dictionaries (line 87, and the library's tool-call type),
\* which have no such method, so the call raises AttributeError.
TcDictRaises(msg) == msg.tool_calls # <<>>

\* One iteration of the loop of lines 130-137 for a message that does not raise
WireTurns(msg) ==
    IF msg.type = "human" THEN <<ChatMessage("user", msg.content, <<>>)>>
    ELSE IF msg.type = "ai" THEN <<ChatMessage("bot", msg.content, <<>>)>>
    ELSE IF msg.type = "tool"
    THEN <<ChatMessage("bot", ToolOutputText(msg.tool_call_id, msg.content), <<>>)>>
    ELSE <<>>

\* The loop of lines 129-137: the turns built, or the exception that ends it
RECURSIVE ToWire(_)
ToWire(msgs) ==
    IF msgs = <<>> THEN [raised |-> FALSE, turns |-> <<>>]
    ELSE IF Head(msgs).type = "ai" /\ TcDictRaises(Head(msgs))
    THEN [raised |-> TRUE, turns |-> <<>>]
    ELSE LET rest == ToWire(Tail(msgs))
         IN  IF rest.raised THEN rest
             ELSE [raised |-> FALSE, turns |-> WireTurns(Head(msgs)) \o rest.turns]

-----------------------------------------------------------------------------
(* Tool registry, lines 60-77 *)

\* str(results) of line 68: Python's text of a list of strings
RECURSIVE PyStrItems(_)
PyStrItems(results) ==
    IF results = <<>> THEN ""
    ELSE IF Len(results) = 1 THEN "'" \o Head(results) \o "'"
    ELSE "'" \o Head(results) \o "', " \o PyStrItems(Tail(results))

PyStr(results) == "[" \o PyStrItems(results) \o "]"

\* lines 63-70; outcome is what the provider call of line 67 does
tavily_search(query, outcome) ==
    IF outcome.ok THEN PyStr(outcome.results)
    ELSE ERRPREFIX \o outcome.error

\* lines 74-76
placeholder_search(query) == STUB

\* Mutant of RegisterTools: the live capability is registered whether or not
\* the credential is set.
RegisterToolsAlwaysLive(enabled) == <<"tavily_search">>

\* lines 60-77: the registry built at import
RegisterTools(enabled) ==
    IF enabled THEN <<"tavily_search">> ELSE <<"placeholder_search">>

ProviderOutcomes ==
    { [ok |-> TRUE, results |-> <<"snippet">>, error |-> NoText],
      [ok |-> FALSE, results |-> <<>>, error |-> "timeout"] }

Queries == {"q1", "q2"}

-----------------------------------------------------------------------------
(* Inputs *)

Requests == 1..NumReq
Single == {1}       \* the request Spec and SpecAny follow

Senders == {"user", "bot", "system"}

\* Bodies of Spec: every chat_history of up to MaxHist turns
Turns ==
    { ChatMessage(s, "hi", tc) :
        s \in Senders, tc \in {<<>>, <<Call1>>, <<MalformedCall>>} }

Bodies ==
    { ChatRequest(TRUE, "hello", h) : h \in SeqsUpTo(Turns, MaxHist) }
    \cup { ChatRequest(FALSE, NoText, <<>>) }

\* Bodies of SpecAny and SpecConc
SmallBodies ==
    { ChatRequest(TRUE, "hello", <<>>),
      ChatRequest(TRUE, "bye", <<ChatMessage("user", "hi", <<>>),
                                  ChatMessage("bot", "ho", <<>>)>>),
      ChatRequest(FALSE, NoText, <<>>) }

\* Final conversations of SpecAny: any sequence of these messages
AnyMessages ==
    { HumanMessage("q"), ToolMessage("out", "call1") }
    \cup { AIMessage(c, tc) : c \in {"X", ""}, tc \in {<<>>, <<Call1>>} }

AnswerTexts == {"X", ""}

\* What the runtime appends under SpecConc
ConcTails ==
    { <<AIMessage("X", <<>>)>>,
      <<AIMessage("", <<>>), AIMessage("Y", <<>>)>>,
      <<AIMessage("", <<Call1>>), ToolMessage("out", "call1"), AIMessage("Z", <<>>)>> }

-----------------------------------------------------------------------------
(* Process start, lines 41-80 *)

Init ==
    /\ boot = "init"
    /\ env \in [google : BOOLEAN, tavily : BOOLEAN]
    /\ tavily_search_enabled = FALSE
    /\ tools = <<>>
    /\ provider_calls = 0
    /\ pc = [r \in Requests |-> "idle"]
    /\ request = [r \in Requests |-> NoRequest]
    /\ full_chat_history = [r \in Requests |-> <<>>]
    /\ messages = [r \in Requests |-> <<>>]
    /\ steps = [r \in Requests |-> 0]
    /\ invocations = [r \in Requests |-> 0]
    /\ exc = [r \in Requests |-> NoText]
    /\ ai_response_content = [r \in Requests |-> NoText]
    /\ resp = [r \in Requests |-> NoResponse]
    /\ logged = [r \in Requests |-> NoText]

\* lines 45-77: refuse to start without the model credential; otherwise fix the
\* search capability and build the registry.
Startup ==
    /\ boot = "init"
    /\ IF ~env.google
       THEN /\ boot' = "crashed"
            /\ UNCHANGED << tavily_search_enabled, tools >>
       ELSE /\ boot' = "serving"
            /\ tavily_search_enabled' = env.tavily
            /\ tools' = RegisterTools(env.tavily)
    /\ UNCHANGED << env, provider_calls, pc, request, full_chat_history, messages,
                    steps, invocations, exc, ai_response_content, resp, logged >>

-----------------------------------------------------------------------------
(* POST /chat, lines 98-143 *)

\* Mutant of BuildHistory: history_messages is a module-level list shared by all
\* requests, so a request also hands over what a request in flight put there.
BuildHistoryShared(r, body) ==
    LET others == { s \in Requests \ {r} : pc[s] = "model" }
    IN  IF others = {}
        THEN ToInternal(body.chat_history, body.message)
        ELSE LET s == CHOOSE s \in others : TRUE
             IN  SubSeq(full_chat_history[s], 1, Len(full_chat_history[s]) - 1)
                     \o ToInternal(body.chat_history, body.message)

\* lines 100-109: the conversation request r builds from its own body
BuildHistory(r, body) == ToInternal(body.chat_history, body.message)

\* Mutant of RejectsBody: message has a default, so no body is rejected.
RejectsBodyNever(body) == FALSE

\* lines 89-91 with line 99: the framework validates the body against
\* ChatRequest before calling the handler; message has no default.
RejectsBody(body) == ~body.has_message

\* A body that fails validation: the framework answers 422, the handler is not
\* called.
Reject(r, body) ==
    /\ RejectsBody(body)
    /\ pc' = [pc EXCEPT ![r] = "rejected"]
    /\ request' = [request EXCEPT ![r] = body]
    /\ resp' = [resp EXCEPT ![r] = HttpResponse(422, NoText, <<>>, FRAMEWORK_422)]
    /\ UNCHANGED << full_chat_history, messages, invocations, exc >>

\* lines 100-112, up to the await.  Lines 103-109 run before the try of line
\* 111: an exception there leaves chat_endpoint and the framework answers with
\* its own 500.
chat_endpoint_begin(r, body) ==
    /\ ~RejectsBody(body)
    /\ request' = [request EXCEPT ![r] = body]
    /\ IF InboundRaises(body.chat_history)
       THEN /\ pc' = [pc EXCEPT ![r] = "uncaught"]
            /\ exc' = [exc EXCEPT ![r] = VALIDATION_ERROR]
            /\ resp' = [resp EXCEPT ![r] = HttpResponse(500, NoText, <<>>, FRAMEWORK_500)]
            /\ UNCHANGED << full_chat_history, messages, invocations >>
       ELSE /\ full_chat_history' = [full_chat_history EXCEPT ![r] = BuildHistory(r, body)]
            /\ messages' = [messages EXCEPT ![r] = BuildHistory(r, body)]
            /\ invocations' = [invocations EXCEPT ![r] = @ + 1]
            /\ pc' = [pc EXCEPT ![r] = "model"]
            /\ UNCHANGED << exc, resp >>

Post(r, bodies) ==
    /\ boot = "serving"
    /\ pc[r] = "idle"
    /\ \E body \in bodies : Reject(r, body) \/ chat_endpoint_begin(r, body)
    /\ UNCHANGED << boot, env, tavily_search_enabled, tools, provider_calls, steps,
                    ai_response_content, logged >>

\* lines 141-143
ExceptResponse(e) == HttpResponse(500, NoText, <<>>, DETAILPREFIX \o e)

\* lines 114-139, after the await returned final_state = messages[r]
chat_endpoint_resume(r) ==
    /\ pc[r] = "returned"
    /\ ai_response_content' = [ai_response_content EXCEPT ![r] = ExtractAnswer(messages[r])]
    /\ LET wire == ToWire(messages[r])
       IN  IF wire.raised
           THEN /\ exc' = [exc EXCEPT ![r] = ATTRIBUTE_ERROR]
                /\ logged' = [logged EXCEPT ![r] = LOGPREFIX \o ATTRIBUTE_ERROR]
                /\ resp' = [resp EXCEPT ![r] = ExceptResponse(ATTRIBUTE_ERROR)]
                /\ pc' = [pc EXCEPT ![r] = "error"]
           ELSE /\ resp' = [resp EXCEPT ![r] =
                               HttpResponse(200, ExtractAnswer(messages[r]), wire.turns, NoText)]
                /\ pc' = [pc EXCEPT ![r] = "done"]
                /\ UNCHANGED << exc, logged >>
    /\ UNCHANGED << boot, env, tavily_search_enabled, tools, provider_calls, request,
                    full_chat_history, messages, steps, invocations >>

\* lines 141-143, when the await of line 112 raised
chat_endpoint_except(r) ==
    /\ pc[r] = "raised"
    /\ logged' = [logged EXCEPT ![r] = LOGPREFIX \o exc[r]]
    /\ resp' = [resp EXCEPT ![r] = ExceptResponse(exc[r])]
    /\ pc' = [pc EXCEPT ![r] = "error"]
    /\ UNCHANGED << boot, env, tavily_search_enabled, tools, provider_calls, request,
                    full_chat_history, messages, steps, invocations, exc,
                    ai_response_content >>

-----------------------------------------------------------------------------
(* The agent runtime behind app_runnable.ainvoke, lines 80 and 112 *)

Appended(r, msg) == [messages EXCEPT ![r] = Append(@, msg)]

\* The model answers: a final Assistant message, or (while the step bound
\* allows) one requesting a call of the registered tool.
AgentModel(r) ==
    /\ pc[r] = "model"
    /\ \/ \E c \in AnswerTexts :
              /\ messages' = Appended(r, AIMessage(c, <<>>))
              /\ pc' = [pc EXCEPT ![r] = "returned"]
       \/ /\ steps[r] < MaxSteps
          /\ \E q \in Queries :
                 messages' = Appended(r, AIMessage("",
                     <<ToolCall(tools[1], q, "call" \o ToString(steps[r] + 1))>>))
          /\ pc' = [pc EXCEPT ![r] = "tools"]
    /\ UNCHANGED << boot, env, tavily_search_enabled, tools, provider_calls, request,
                    full_chat_history, steps, invocations, exc, ai_response_content,
                    resp, logged >>

\* The runtime runs the requested call against the registry (lines 62-77) and
\* appends its result.
AgentTools(r) ==
    /\ pc[r] = "tools"
    /\ LET call == messages[r][Len(messages[r])].tool_calls[1]
       IN  IF call.name = "tavily_search"
           THEN /\ \E outcome \in ProviderOutcomes :
                       messages' = Appended(r, ToolMessage(tavily_search(call.args, outcome),
                                                         call.id))
                /\ provider_calls' = provider_calls + 1
           ELSE /\ messages' = Appended(r, ToolMessage(placeholder_search(call.args), call.id))
                /\ UNCHANGED provider_calls
    /\ steps' = [steps EXCEPT ![r] = @ + 1]
    /\ pc' = [pc EXCEPT ![r] = "model"]
    /\ UNCHANGED << boot, env, tavily_search_enabled, tools, request, full_chat_history,
                    invocations, exc, ai_response_content, resp, logged >>

\* The invocation fails (the model provider call raises, the runtime's own step
\* limit is hit): the await of line 112 raises.
AgentRaises(r) ==
    /\ pc[r] = "model"
    /\ exc' = [exc EXCEPT ![r] = MODEL_ERROR]
    /\ pc' = [pc EXCEPT ![r] = "raised"]
    /\ UNCHANGED << boot, env, tavily_search_enabled, tools, provider_calls, request,
                    full_chat_history, messages, steps, invocations,
                    ai_response_content, resp, logged >>

\* The runtime seen as a black box: ainvoke returns one of `finals`.
AgentReturns(r, finals) ==
    /\ pc[r] = "model"
    /\ \E final \in finals : messages' = [messages EXCEPT ![r] = final]
    /\ pc' = [pc EXCEPT ![r] = "returned"]
    /\ UNCHANGED << boot, env, tavily_search_enabled, tools, provider_calls, request,
                    full_chat_history, steps, invocations, exc, ai_response_content,
                    resp, logged >>

-----------------------------------------------------------------------------
(* Specifications *)

\* One request, every body, the runtime's tool loop step by step
Next ==
    \/ Startup
    \/ \E r \in Single :
          \/ Post(r, Bodies)
          \/ AgentModel(r)
          \/ AgentTools(r)
          \/ AgentRaises(r)
          \/ chat_endpoint_resume(r)
          \/ chat_endpoint_except(r)

Spec == Init /\ [][Next]_vars

\* One request, the runtime returning any conversation at all
NextAny ==
    \/ Startup
    \/ \E r \in Single :
          \/ Post(r, SmallBodies)
          \/ AgentReturns(r, SeqsUpTo(AnyMessages, MaxConv))
          \/ AgentRaises(r)
          \/ chat_endpoint_resume(r)
          \/ chat_endpoint_except(r)

SpecAny == Init /\ [][NextAny]_vars

\* NumReq requests in flight, interleaved at the await; the runtime appends
NextConc ==
    \/ Startup
    \/ \E r \in Requests :
          \/ Post(r, SmallBodies)
          \/ AgentReturns(r, { messages[r] \o tail : tail \in ConcTails })
          \/ AgentRaises(r)
          \/ chat_endpoint_resume(r)
          \/ chat_endpoint_except(r)

SpecConc == Init /\ [][NextConc]_vars

-----------------------------------------------------------------------------
(* Vocabulary of the properties *)

\* The handler of r has finished after ainvoke returned a final conversation
\* (messages[r]), either with a ChatResponse or through its except branch.
FinishedAfterReturn(r) ==
    \/ pc[r] = "done"
    \/ pc[r] = "error" /\ exc[r] = ATTRIBUTE_ERROR

\* What the runtime appended to the conversation it was handed
AppendedBy(r) ==
    SubSeq(messages[r], Len(full_chat_history[r]) + 1, Len(messages[r]))

SameRoleAndContent(turn, other) ==
    turn.sender = other.sender /\ turn.content = other.content

\* The positions of the Assistant messages without pending tool calls that no
\* Human message follows
Qualifying(msgs) ==
    { i \in 1..Len(msgs) :
        /\ msgs[i].type = "ai"
        /\ msgs[i].tool_calls = <<>>
        /\ \A j \in (i + 1)..Len(msgs) : msgs[j].type # "human" }

ExpectedAnswer(msgs) ==
    IF Qualifying(msgs) = {} THEN PLACEHOLDER
    ELSE msgs[CHOOSE i \in Qualifying(msgs) : \A j \in Qualifying(msgs) : j <= i].content

\* The turn the outbound translation is to produce for one message
ExpectedTurn(msg) ==
    CASE msg.type = "human" -> ChatMessage("user", msg.content, <<>>)
      [] msg.type = "ai"    -> ChatMessage("bot", msg.content, msg.tool_calls)
      [] msg.type = "tool"  ->
             ChatMessage("bot",
                 "*(Tool Output for " \o msg.tool_call_id \o "): " \o msg.content \o "*",
                 <<>>)

-----------------------------------------------------------------------------
(* C1 *)

\* What lines 114-127 compute is the answer the scan rule describes.
ExtractionFollowsScanRule ==
    \A r \in Requests :
        FinishedAfterReturn(r) => ai_response_content[r] = ExpectedAnswer(messages[r])

\* C1: for every final conversation the runtime returns, the `response` field
\* of the reply is the content of the last Assistant message that has no
\* pending tool calls and no Human message after it, and the placeholder text
\* (never the empty string) when there is none, as when the conversation ends
\* in an Assistant message with a pending tool call.
C1_ResponseIsExtractedAnswer ==
    \A r \in Requests :
        FinishedAfterReturn(r) =>
            /\ resp[r].status = 200
            /\ resp[r].response = ExpectedAnswer(messages[r])
            /\ (Qualifying(messages[r]) = {} => resp[r].response # "")

-----------------------------------------------------------------------------
(* C2 *)

\* C2: a successful POST /chat returns a chat_history at least as long as the
\* input chat_history plus the new turns of the exchange (the new user turn and
\* what the runtime appended), and its leading turns are the input turns in
\* their order.
C2_HistoryNeverShorter ==
    \A r \in Requests :
        pc[r] = "done" =>
            LET input == request[r].chat_history
                out == resp[r].chat_history
            IN  /\ Len(out) >= Len(input) + 1 + Len(AppendedBy(r))
                /\ \A i \in 1..Len(input) :
                       i <= Len(out) /\ SameRoleAndContent(out[i], input[i])

-----------------------------------------------------------------------------
(* C3 *)

\* C3: every exception raised while a request is handled (inbound or outbound
\* translation, the runtime invocation) is caught in chat_endpoint, logged, and
\* answered with HTTP 500 whose detail carries the exception's text; no
\* ChatResponse is returned and the runtime was invoked at most once.
C3_ExceptionsCaughtAtBoundary ==
    \A r \in Requests :
        (exc[r] # NoText /\ pc[r] \in {"error", "uncaught"}) =>
            /\ resp[r].status = 500
            /\ resp[r].detail = DETAILPREFIX \o exc[r]
            /\ logged[r] = LOGPREFIX \o exc[r]
            /\ resp[r].chat_history = <<>> /\ resp[r].response = NoText
            /\ invocations[r] <= 1

-----------------------------------------------------------------------------
(* C4 *)

\* C4: a request whose body lacks `message` is answered with a client error
\* (4xx, not 500) and app_runnable.ainvoke is never called for it.
C4_MissingMessageRejected ==
    \A r \in Requests :
        (pc[r] # "idle" /\ ~request[r].has_message) =>
            /\ pc[r] = "rejected"
            /\ resp[r].status \in 400..499
            /\ invocations[r] = 0
            /\ messages[r] = <<>>

C4_Witness ==
    \E r \in Requests : pc[r] = "rejected" /\ ~request[r].has_message

-----------------------------------------------------------------------------
(* C5 *)

\* C5: a chat_history of "user" and "bot" turns, translated to internal form
\* and back, comes out with the same senders and contents in the same order,
\* also when a "bot" turn carries tool calls.
C5_RoundTrip ==
    \A r \in Requests :
        ( /\ FinishedAfterReturn(r)
          /\ \A i \in 1..Len(request[r].chat_history) :
                 request[r].chat_history[i].sender \in {"user", "bot"}
          /\ \A i \in 1..Len(AppendedBy(r)) : AppendedBy(r)[i].tool_calls = <<>> )
        => /\ resp[r].status = 200
           /\ Len(resp[r].chat_history) >= Len(request[r].chat_history)
           /\ \A i \in 1..Len(request[r].chat_history) :
                  SameRoleAndContent(resp[r].chat_history[i], request[r].chat_history[i])

-----------------------------------------------------------------------------
(* C6 *)

\* The results tools have returned to the runtime so far
ToolResults ==
    UNION { { messages[r][i].content :
                i \in { j \in 1..Len(messages[r]) : messages[r][j].type = "tool" } } :
            r \in Requests }

\* C6: once the process serves, the registry holds exactly one tool, the choice
\* made at start never changes, and when the search credential was absent every
\* result of the search capability is the stub text and the search provider is
\* never contacted.
C6_SearchCapabilityFixed ==
    /\ [](boot = "serving" =>
            /\ Len(tools) = 1
            /\ tavily_search_enabled = env.tavily
            /\ (~env.tavily => provider_calls = 0 /\ ToolResults \subseteq {STUB}))
    /\ [][boot = "serving" =>
            /\ boot' = "serving"
            /\ tools' = tools
            /\ tavily_search_enabled' = tavily_search_enabled
            /\ env' = env]_vars

C6_Witness ==
    /\ boot = "serving" /\ ~env.tavily
    /\ \E r \in Requests :
           /\ Len(messages[r]) >= 4
           /\ \E i, j \in 1..(Len(messages[r]) - 1) :
                  /\ i < j
                  /\ messages[r][i].type = "ai" /\ messages[r][j].type = "ai"
                  /\ messages[r][i].tool_calls # <<>> /\ messages[r][j].tool_calls # <<>>
                  /\ messages[r][i].tool_calls[1].args # messages[r][j].tool_calls[1].args
                  /\ messages[r][i + 1] = ToolMessage(STUB, messages[r][i].tool_calls[1].id)
                  /\ messages[r][j + 1] = ToolMessage(STUB, messages[r][j].tool_calls[1].id)

-----------------------------------------------------------------------------
(* C7 *)

SearchFailed(r) ==
    \E i \in 1..Len(messages[r]) :
        messages[r][i].type = "tool" /\ StartsWith(messages[r][i].content, ERRPREFIX)

\* C7: when the provider call of the live search capability fails, the tool's
\* result is a text beginning "Error performing Tavily search:", the loop goes
\* on, and a request whose loop reached a final answer is answered with that
\* answer, not with HTTP 500.
C7_SearchFailureStillAnswers ==
    \A r \in Requests :
        (FinishedAfterReturn(r) /\ SearchFailed(r)) =>
            /\ resp[r].status = 200
            /\ resp[r].response = ExpectedAnswer(messages[r])

-----------------------------------------------------------------------------
(* C8 *)

\* Everything the handler task of request r holds
Local(r) ==
    << pc[r], request[r], full_chat_history[r], messages[r], steps[r],
       invocations[r], exc[r], ai_response_content[r], resp[r], logged[r] >>

Invoked(r) == pc[r] \in {"model", "returned", "raised", "done", "error"}

\* C8: with any number of requests in flight and any interleaving at the
\* await, the conversation a request hands over is built from its own body
\* alone, its reply is what its own final conversation gives when handled
\* alone, and no step of one request changes anything another request holds.
C8_RequestsIsolated ==
    /\ [](\A r \in Requests :
            /\ Invoked(r) =>
                   full_chat_history[r] =
                       ToInternal(request[r].chat_history, request[r].message)
            /\ (pc[r] = "returned" \/ FinishedAfterReturn(r)) =>
                   SubSeq(messages[r], 1, Len(full_chat_history[r])) = full_chat_history[r]
            /\ pc[r] = "done" =>
                   resp[r] = HttpResponse(200, ExpectedAnswer(messages[r]),
                                 [i \in 1..Len(messages[r]) |-> ExpectedTurn(messages[r][i])],
                                 NoText))
    /\ [][\A r, s \in Requests :
            (r # s /\ Local(r)' # Local(r)) => Local(s)' = Local(s)]_vars

C8_Witness ==
    \E r, s \in Requests :
        /\ r # s
        /\ request[r] # request[s]
        /\ pc[r] = "done" /\ Len(request[r].chat_history) > 0
        /\ pc[s] = "returned"

-----------------------------------------------------------------------------
(* C9 *)

Recognized(turn) == turn.sender \in {"user", "bot"}

-----------------------------------------------------------------------------
(* C10 *)

\* C10: the returned chat_history has exactly one turn per message of the final
\* conversation, in order: Human as "user", Assistant as "bot" with its content
\* and its tool-call records (also when there are some), ToolResult as "bot"
\* with content `*(Tool Output for <id>): <output>*`.
C10_OutboundTranslation ==
    \A r \in Requests :
        FinishedAfterReturn(r) =>
            /\ resp[r].status = 200
            /\ Len(resp[r].chat_history) = Len(messages[r])
            /\ \A i \in 1..Len(messages[r]) :
                   resp[r].chat_history[i] = ExpectedTurn(messages[r][i])

\* What holds of the code: the translation is as described for every final
\* conversation in which no Assistant message carries tool calls.
OutboundWithoutToolCalls ==
    \A r \in Requests :
        pc[r] = "done" =>
            /\ \A i \in 1..Len(messages[r]) : messages[r][i].tool_calls = <<>>
            /\ Len(resp[r].chat_history) = Len(messages[r])
            /\ \A i \in 1..Len(messages[r]) :
                   resp[r].chat_history[i] = ExpectedTurn(messages[r][i])

====
